---- MODULE Spec2Model ----
(***************************************************************************)
(* Interval value-range analysis and array bounds check of                 *)
(* value_range/value_range.cpp and value_range/VariableRange.h.            *)
(*                                                                         *)
(* The `int` of the source is modelled with IntBits bits instead of 32, so *)
(* that saturation, widening to INT_MAX / INT_MIN and signed overflow all  *)
(* happen inside the range TLC can compute with.                           *)
(***************************************************************************)
EXTENDS Integers, Sequences, FiniteSets, TLC

IntBits == 8

INT_MAX == 2^(IntBits - 1) - 1

INT_MIN == -INT_MAX - 1

min(a, b) == IF b < a THEN b ELSE a

max(a, b) == IF a < b THEN b ELSE a

(* C++ integer division truncates toward zero. *)
TruncDiv(a, b) ==
  IF (a >= 0) = (b > 0) THEN (IF a >= 0 THEN a ELSE -a) \div (IF b > 0 THEN b ELSE -b)
  ELSE -((IF a >= 0 THEN a ELSE -a) \div (IF b > 0 THEN b ELSE -b))

(* struct VariableRange; the default-constructed range is the full range. *)
VariableRange(lo, hi) == [min_value |-> lo, max_value |-> hi]

TopRange == VariableRange(INT_MIN, INT_MAX)

(* Outcomes of an `int` expression whose signed overflow is undefined:     *)
(* "wrap" is two's-complement wrap-around, "nsw" is the compiler using the *)
(* no-overflow assumption when it orders the overflowed operand in min().  *)
UBOutcomes == {"wrap", "nsw"}

(* min(a + 1, b) as computed on int, a + 1 overflowing when a = INT_MAX. *)
MinInc(a, b, u) ==
  IF a < INT_MAX THEN min(a + 1, b)
  ELSE IF u = "wrap" THEN min(INT_MIN, b) ELSE b

(* min(a - 1, b) as computed on int, a - 1 overflowing when a = INT_MIN. *)
MinDec(a, b, u) ==
  IF a > INT_MIN THEN min(a - 1, b)
  ELSE IF u = "wrap" THEN min(INT_MAX, b) ELSE INT_MAX

outOfRange_strictSize(range, array_size) ==
  range.max_value < 0 \/ range.min_value > array_size

outOfRange(range, array_size) ==
  range.max_value < 0 \/ range.min_value >= array_size

Saturate(v) == IF v > INT_MAX THEN INT_MAX ELSE IF v < INT_MIN THEN INT_MIN ELSE v

(* v reduced to the int with the same low IntBits bits *)
Wrap(v) == ((v - INT_MIN) % (2 ^ IntBits)) + INT_MIN

checkUnderOverFlow_wrap(lhs, rhs, operation) ==
  CASE operation = "+" -> Wrap(lhs + rhs)
    [] operation = "-" -> Wrap(lhs - rhs)
    [] operation = "*" -> Wrap(lhs * rhs)
    [] operation = "/" -> IF rhs = 0 THEN lhs ELSE Wrap(TruncDiv(lhs, rhs))

checkUnderOverFlow(lhs, rhs, operation) ==
  CASE operation = "+" -> Saturate(lhs + rhs)
    [] operation = "-" -> Saturate(lhs - rhs)
    [] operation = "*" -> Saturate(lhs * rhs)
    [] operation = "/" -> IF rhs = 0 THEN lhs ELSE Saturate(TruncDiv(lhs, rhs))

unionRange_overwrite(lhs, rhs) == rhs

unionRange(lhs, rhs) ==
  VariableRange(min(lhs.min_value, rhs.min_value), max(lhs.max_value, rhs.max_value))

SetMin(S) == CHOOSE x \in S : \A y \in S : x <= y

SetMax(S) == CHOOSE x \in S : \A y \in S : y <= x

(* The values sampled by checkAllCombinations: the four corners and, for a *)
(* division, the corners against -1 or else against +1.                    *)
Corners(lhs, rhs, op) ==
  { checkUnderOverFlow(l, r, op) :
      l \in {lhs.min_value, lhs.max_value}, r \in {rhs.min_value, rhs.max_value} }

UnitSamples(lhs, rhs, op) ==
  IF op = "/" /\ rhs.min_value < -1 /\ -1 < rhs.max_value
    THEN { checkUnderOverFlow(l, -1, op) : l \in {lhs.min_value, lhs.max_value} }
  ELSE IF op = "/" /\ rhs.min_value < 1 /\ 1 < rhs.max_value
    THEN { checkUnderOverFlow(l, 1, op) : l \in {lhs.min_value, lhs.max_value} }
  ELSE {}

checkAllCombinations(lhs, rhs, op) ==
  LET samples == Corners(lhs, rhs, op) \cup UnitSamples(lhs, rhs, op)
  IN  VariableRange(min(INT_MAX, SetMin(samples)), max(INT_MIN, SetMax(samples)))

addRanges(lhs, rhs) == checkAllCombinations(lhs, rhs, "+")

subRanges(lhs, rhs) == checkAllCombinations(lhs, rhs, "-")

multRanges(lhs, rhs) == checkAllCombinations(lhs, rhs, "*")

DivAborts_anyZero(rhs) == rhs.min_value <= 0 /\ 0 <= rhs.max_value

(* divRanges exits the process on the divisor [0,0]; DivAborts is that test. *)
DivAborts(rhs) == rhs.min_value = 0 /\ rhs.max_value = 0

divRanges(lhs, rhs) == checkAllCombinations(lhs, rhs, "/")

validate(range) == range.max_value >= range.min_value

(* The refinement functions return the range and the `successful` flag. *)
Refined_unchecked(output) == [range |-> output, successful |-> TRUE]

Refined(output) ==
  IF validate(output) THEN [range |-> output, successful |-> TRUE]
  ELSE [range |-> VariableRange(INT_MAX, INT_MAX), successful |-> FALSE]

lessRange(lhs, rhs, u) ==
  Refined(VariableRange(lhs.min_value, MinDec(rhs.max_value, lhs.max_value, u)))

lessEqualRange_strict(lhs, rhs) ==
  Refined(VariableRange(lhs.min_value, min(rhs.max_value - 1, lhs.max_value)))

lessEqualRange(lhs, rhs) ==
  Refined(VariableRange(lhs.min_value, min(rhs.max_value, lhs.max_value)))

greaterRange_noInc(lhs, rhs, u) ==
  Refined(VariableRange(min(rhs.min_value, lhs.max_value), lhs.max_value))

greaterRange(lhs, rhs, u) ==
  Refined(VariableRange(MinInc(rhs.min_value, lhs.max_value, u), lhs.max_value))

greaterEqualRange(lhs, rhs) ==
  Refined(VariableRange(min(rhs.min_value, lhs.max_value), lhs.max_value))

equalRange(lhs, rhs) ==
  LET le == lessEqualRange(lhs, rhs)
  IN  IF le.successful THEN greaterEqualRange(le.range, rhs) ELSE le

(***************************************************************************)
(* Ranges: unordered_map<Value*, VariableRange>, a function from value ids.*)
(***************************************************************************)
EmptyRanges == [v \in {} |-> TopRange]

Put(m, k, val) == [x \in (DOMAIN m) \cup {k} |-> IF x = k THEN val ELSE m[x]]

equal_ranges_sameKeys(first, second) == DOMAIN first = DOMAIN second

equal_ranges(first, second) ==
  /\ Cardinality(DOMAIN first) = Cardinality(DOMAIN second)
  /\ \A val \in DOMAIN first :
       /\ val \in DOMAIN second
       /\ second[val].min_value = first[val].min_value
       /\ second[val].max_value = first[val].max_value

intersectRanges_keepOrig(orig, to_merge) ==
  [value \in DOMAIN orig |->
     IF value \in DOMAIN to_merge THEN unionRange(orig[value], to_merge[value])
     ELSE orig[value]]

(* first loop: union the ranges of the values of to_merge that orig holds; *)
(* second and third loop: erase from orig the values that to_merge lacks   *)
intersectRanges(orig, to_merge) ==
  LET victims == { value \in DOMAIN orig : value \notin DOMAIN to_merge }
  IN  [value \in (DOMAIN orig) \ victims |-> unionRange(orig[value], to_merge[value])]

widen_never(current, original) == current

widen(current, original) ==
  [val \in DOMAIN current |->
     IF val \in DOMAIN original
       THEN VariableRange(
              IF current[val].min_value < original[val].min_value
                THEN INT_MIN ELSE current[val].min_value,
              IF current[val].max_value > original[val].max_value
                THEN INT_MAX ELSE current[val].max_value)
       ELSE current[val]]

(***************************************************************************)
(* The switch of handleICMP over the signed predicate: the ranges of the   *)
(* two operands on the true ("if") and the false ("else") edge and the two *)
(* reachable flags.  A range that no case assigns keeps its default.       *)
(***************************************************************************)
Predicates == {"eq", "ne", "sgt", "slt", "sge", "sle"}

Ordered(l1, r1, l2, r2) ==
  [if_lhs |-> l1.range,
   if_rhs |-> IF l1.successful THEN r1.range ELSE TopRange,
   if_reachable |-> IF l1.successful THEN r1.successful ELSE FALSE,
   else_lhs |-> l2.range,
   else_rhs |-> IF l2.successful THEN r2.range ELSE TopRange,
   else_reachable |-> IF l2.successful THEN r2.successful ELSE FALSE]

icmpRanges(pred, first, second, u) ==
  CASE pred = "eq" ->
         LET e == equalRange(first, second)
         IN  [if_lhs |-> e.range, if_rhs |-> e.range, if_reachable |-> e.successful,
              else_lhs |-> first, else_rhs |-> second, else_reachable |-> TRUE]
    [] pred = "ne" ->
         LET e == equalRange(first, second)
         IN  [if_lhs |-> first, if_rhs |-> second, if_reachable |-> TRUE,
              else_lhs |-> e.range, else_rhs |-> e.range, else_reachable |-> e.successful]
    [] pred = "sgt" ->
         LET l1 == greaterRange(first, second, u)
             l2 == lessEqualRange(first, second)
         IN  Ordered(l1, lessRange(second, l1.range, u),
                     l2, greaterEqualRange(second, l2.range))
    [] pred = "slt" ->
         LET l1 == lessRange(first, second, u)
             l2 == greaterEqualRange(first, second)
         IN  Ordered(l1, greaterRange(second, l1.range, u),
                     l2, lessEqualRange(second, l2.range))
    [] pred = "sge" ->
         LET l1 == greaterEqualRange(first, second)
             l2 == lessRange(first, second, u)
         IN  Ordered(l1, lessEqualRange(second, l1.range),
                     l2, greaterRange(second, l2.range, u))
    [] pred = "sle" ->
         LET l1 == lessEqualRange(first, second)
             l2 == greaterRange(first, second, u)
         IN  Ordered(l1, greaterEqualRange(second, l1.range),
                     l2, lessRange(second, l2.range, u))

(***************************************************************************)
(* The IR the pass reads.  A function is a sequence of basic blocks, block *)
(* 1 is the entry block, a block is a sequence of instructions.  An        *)
(* instruction is identified by its id (the Value* of the source); an      *)
(* operand is a constant or the id of the instruction that defines it.     *)
(***************************************************************************)
Const(k) == [isConst |-> TRUE, n |-> k]

Val(id) == [isConst |-> FALSE, n |-> id]

Inst(op, id, x, y, pred, t, f) ==
  [op |-> op, id |-> id, x |-> x, y |-> y, pred |-> pred, t |-> t, f |-> f]

Alloca(id) == Inst("alloca", id, Const(0), Const(0), "", 0, 0)

(* alloca of an array of n ints *)
AllocaArray(id, n) == Inst("allocaArray", id, Const(n), Const(0), "", 0, 0)

Load(id, ptr) == Inst("load", id, Val(ptr), Const(0), "", 0, 0)

(* store x (value operand) to y (pointer operand) *)
Store(id, x, ptr) == Inst("store", id, x, Val(ptr), "", 0, 0)

BinOp(op, id, x, y) == Inst(op, id, x, y, "", 0, 0)

ICmp(id, pred, x, y) == Inst("icmp", id, x, y, pred, 0, 0)

Br(id, t) == Inst("br", id, Const(0), Const(0), "", t, 0)

(* conditional branch on the icmp `c`: true successor t, false successor f *)
CondBr(id, c, t, f) == Inst("condbr", id, Val(c), Const(0), "", t, f)

(* getelementptr of array `arr` (operand 0) with index operand 2 *)
GEP(id, arr, idx) == Inst("gep", id, Val(arr), idx, "", 0, 0)

Call(id) == Inst("call", id, Const(0), Const(0), "", 0, 0)

Cast(id, x) == Inst("cast", id, Val(x), Const(0), "", 0, 0)

Ret(id) == Inst("ret", id, Const(0), Const(0), "", 0, 0)

Blocks(F) == 1 .. Len(F)

InstsOf(F) == UNION { { F[b][i] : i \in 1 .. Len(F[b]) } : b \in Blocks(F) }

InstById(F, id) == CHOOSE I \in InstsOf(F) : I.id = id

Terminator(F, b) == F[b][Len(F[b])]

Targets(I) ==
  IF I.op = "br" THEN {I.t} ELSE IF I.op = "condbr" THEN {I.t, I.f} ELSE {}

predecessors(F, b) == { p \in Blocks(F) : b \in Targets(Terminator(F, p)) }

RECURSIVE Ascending(_)
Ascending(S) ==
  IF S = {} THEN << >> ELSE LET m == SetMin(S) IN << m >> \o Ascending(S \ {m})

(* createSuccessorMap: the successors of pred in the order of the blocks *)
bb_succs(F, pred) == Ascending(Targets(Terminator(F, pred)))

(***************************************************************************)
(* Transfer functions.  The state threaded through the instructions of a   *)
(* block is the record                                                     *)
(*   ranges   the in-flight Ranges of runOnFunction (`unioned`)            *)
(*   itr      inst_to_ranges                                               *)
(*   succ     bb_to_succ_ranges                                            *)
(*   reach    the edges the latest branch evaluations found reachable      *)
(*   changed  the `changed` flag of the pass                               *)
(*   aborted  an assert failed or exit(1) was called                       *)
(***************************************************************************)
Abort(st) == [st EXCEPT !.aborted = TRUE]

SetRange(st, id, r) == [st EXCEPT !.ranges = Put(st.ranges, id, r)]

Tracked(st, operand) == operand.n \in DOMAIN st.ranges

(* the range of an operand: [c,c] for a constant, else the stored range *)
OperandRange(st, operand) ==
  IF operand.isConst THEN VariableRange(operand.n, operand.n) ELSE st.ranges[operand.n]

handleAlloca(I, st) ==
  IF I.id \in DOMAIN st.ranges THEN Abort(st)
  ELSE IF I.op = "alloca" THEN SetRange(st, I.id, TopRange)
  ELSE st

handleLoad(I, st) ==
  IF ~Tracked(st, I.x) THEN Abort(st) ELSE SetRange(st, I.id, st.ranges[I.x.n])

handleStore(I, st) ==
  IF ~Tracked(st, I.y) THEN Abort(st)
  ELSE IF I.x.isConst THEN SetRange(st, I.y.n, VariableRange(I.x.n, I.x.n))
  ELSE IF ~Tracked(st, I.x) THEN Abort(st)
  ELSE SetRange(st, I.y.n, st.ranges[I.x.n])

handleBinaryOperations(I, st, op) ==
  IF (~I.x.isConst /\ ~Tracked(st, I.x)) \/ (~I.y.isConst /\ ~Tracked(st, I.y))
    THEN Abort(st)
  ELSE LET firstRange == OperandRange(st, I.x)
           secondRange == OperandRange(st, I.y)
       IN  CASE op = "+" -> SetRange(st, I.id, addRanges(firstRange, secondRange))
             [] op = "-" -> SetRange(st, I.id, subRanges(firstRange, secondRange))
             [] op = "/" -> IF DivAborts(secondRange) THEN Abort(st)
                            ELSE SetRange(st, I.id, divRanges(firstRange, secondRange))
             [] op = "*" -> SetRange(st, I.id, multRanges(firstRange, secondRange))

(* An icmp operand is usable when it is a constant or a tracked load. *)
IcmpOperandOk(F, ranges, operand) ==
  operand.isConst \/
  (operand.n \in DOMAIN ranges /\ InstById(F, operand.n).op = "load")

(* handleICMP: the if and else Ranges and the two reachable flags. *)
handleICMP(F, icmp, ranges, u) ==
  LET first == IF icmp.x.isConst THEN VariableRange(icmp.x.n, icmp.x.n) ELSE ranges[icmp.x.n]
      second == IF icmp.y.isConst THEN VariableRange(icmp.y.n, icmp.y.n) ELSE ranges[icmp.y.n]
      r == icmpRanges(icmp.pred, first, second, u)
      if1 == IF icmp.x.isConst THEN ranges
             ELSE Put(ranges, InstById(F, icmp.x.n).x.n, r.if_lhs)
      else1 == IF icmp.x.isConst THEN ranges
               ELSE Put(ranges, InstById(F, icmp.x.n).x.n, r.else_lhs)
  IN  [if_ranges |-> IF icmp.y.isConst THEN if1
                     ELSE Put(if1, InstById(F, icmp.y.n).x.n, r.if_rhs),
       else_ranges |-> IF icmp.y.isConst THEN else1
                       ELSE Put(else1, InstById(F, icmp.y.n).x.n, r.else_rhs),
       if_reachable |-> r.if_reachable,
       else_reachable |-> r.else_reachable]

HasEdge(succ, parent, s) == parent \in DOMAIN succ /\ s \in DOMAIN succ[parent]

WriteEdge_fresh(succ, parent, s, r) == Put(succ, parent, Put(EmptyRanges, s, r))

(* bb_to_succ_ranges[parent][s] = r *)
WriteEdge(succ, parent, s, r) ==
  Put(succ, parent, Put(IF parent \in DOMAIN succ THEN succ[parent] ELSE EmptyRanges, s, r))

(* One reachable successor of a branch: the edge is written when it has no *)
(* state yet or a different one, and that counts as a change.              *)
UpdateEdge(st, parent, s, r) ==
  IF HasEdge(st.succ, parent, s) /\ equal_ranges(r, st.succ[parent][s]) THEN st
  ELSE [st EXCEPT !.succ = WriteEdge(st.succ, parent, s, r), !.changed = TRUE]

handleBranchInstruction(F, b, I, st, u) ==
  IF I.op = "condbr"
    THEN LET icmp == InstById(F, I.x.n)
         IN  IF ~IcmpOperandOk(F, st.ranges, icmp.x) \/ ~IcmpOperandOk(F, st.ranges, icmp.y)
               THEN Abort(st)
             ELSE LET c == handleICMP(F, icmp, st.ranges, u)
                      s1 == IF c.if_reachable THEN UpdateEdge(st, b, I.t, c.if_ranges) ELSE st
                      s2 == IF c.else_reachable THEN UpdateEdge(s1, b, I.f, c.else_ranges) ELSE s1
                  IN  [s2 EXCEPT !.reach =
                         (st.reach \ {<<b, I.t>>, <<b, I.f>>})
                           \cup (IF c.if_reachable THEN {<<b, I.t>>} ELSE {})
                           \cup (IF c.else_reachable THEN {<<b, I.f>>} ELSE {})]
  ELSE IF b \in DOMAIN st.succ /\ I.t \notin DOMAIN st.succ[b] THEN Abort(st)
  ELSE [UpdateEdge(st, b, I.t, st.ranges) EXCEPT !.reach = st.reach \cup {<<b, I.t>>}]

handleGEPOperations(I, st) == SetRange(st, I.id, TopRange)

handleCallOperations(I, st) == SetRange(st, I.id, TopRange)

handleCastOperations(I, st) ==
  IF ~Tracked(st, I.x) THEN Abort(st) ELSE SetRange(st, I.id, st.ranges[I.x.n])

(* The bookkeeping at the end of handleInst: install the map of a first    *)
(* visit, leave an equal map, widen and install a different one.           *)
Record_notThreaded(I, st) ==
  IF st.aborted THEN st
  ELSE IF I.id \in DOMAIN st.itr
    THEN IF equal_ranges(st.ranges, st.itr[I.id]) THEN st
         ELSE [st EXCEPT !.itr = Put(st.itr, I.id, widen(st.ranges, st.itr[I.id])),
                         !.changed = TRUE]
  ELSE [st EXCEPT !.itr = Put(st.itr, I.id, st.ranges), !.changed = TRUE]

Record(I, st) ==
  IF st.aborted THEN st
  ELSE IF I.id \in DOMAIN st.itr
    THEN IF equal_ranges(st.ranges, st.itr[I.id]) THEN st
         ELSE LET w == widen(st.ranges, st.itr[I.id])
              IN  [st EXCEPT !.ranges = w, !.itr = Put(st.itr, I.id, w), !.changed = TRUE]
  ELSE [st EXCEPT !.itr = Put(st.itr, I.id, st.ranges), !.changed = TRUE]

handleInst(F, b, I, st, u) ==
  CASE I.op \in {"alloca", "allocaArray"} -> Record(I, handleAlloca(I, st))
    [] I.op = "load" -> Record(I, handleLoad(I, st))
    [] I.op = "store" -> Record(I, handleStore(I, st))
    [] I.op \in {"+", "-", "/", "*"} -> Record(I, handleBinaryOperations(I, st, I.op))
    [] I.op \in {"br", "condbr"} -> handleBranchInstruction(F, b, I, st, u)
    [] I.op = "gep" -> Record(I, handleGEPOperations(I, st))
    [] I.op = "call" -> Record(I, handleCallOperations(I, st))
    [] I.op = "cast" -> Record(I, handleCastOperations(I, st))
    [] I.op \in {"icmp", "ret"} -> Record(I, st)

(* for (Instruction& I : *current) changed = handleInst(&I, unioned) || changed *)
(* (the state after an instruction is computed once and handed on)          *)
RECURSIVE RunInsts(_, _, _, _, _)
RunInsts(F, b, i, st, u) ==
  IF i > Len(F[b]) \/ st.aborted THEN st
  ELSE CHOOSE after \in { RunInsts(F, b, i + 1, next, u) :
                            next \in { handleInst(F, b, F[b][i], st, u) } } : TRUE

(***************************************************************************)
(* The analysed functions.  Each is the -O0 IR of the C text in its        *)
(* comment; k is a constant of that text.  Value ids are unique within a   *)
(* function.                                                               *)
(***************************************************************************)
ArrayLen == 30

(* int a[30]; int x = a[k]; *)
ConstIndex(k) ==
  << << AllocaArray(1, ArrayLen), Alloca(2),
        GEP(3, 1, Const(k)), Load(4, 3), Store(5, Val(4), 2), Ret(6) >> >>

(* int a[30]; for (int i = 0; i < k; ++i) a[i] = i; *)
CountedLoop(k) ==
  << << AllocaArray(1, ArrayLen), Alloca(2), Store(3, Const(0), 2), Br(4, 2) >>,
     << Load(5, 2), ICmp(6, "slt", Val(5), Const(k)), CondBr(7, 6, 3, 5) >>,
     << Load(8, 2), Load(9, 2), Cast(10, 9), GEP(11, 1, Val(10)),
        Store(12, Val(8), 11), Br(13, 4) >>,
     << Load(14, 2), BinOp("+", 15, Val(14), Const(1)), Store(16, Val(15), 2), Br(17, 2) >>,
     << Ret(18) >> >>

(* int a[30]; int N = rand(); for (int i = 0; i < N; ++i) a[i] = i; *)
OpaqueLoop ==
  << << AllocaArray(1, ArrayLen), Alloca(2), Alloca(19),
        Call(20), Store(21, Val(20), 19), Store(3, Const(0), 2), Br(4, 2) >>,
     << Load(5, 2), Load(22, 19), ICmp(6, "slt", Val(5), Val(22)), CondBr(7, 6, 3, 5) >>,
     << Load(8, 2), Load(9, 2), Cast(10, 9), GEP(11, 1, Val(10)),
        Store(12, Val(8), 11), Br(13, 4) >>,
     << Load(14, 2), BinOp("+", 15, Val(14), Const(1)), Store(16, Val(15), 2), Br(17, 2) >>,
     << Ret(18) >> >>

(* int a[30]; for (int i = 0; i < 30; ++i) { if (i > k) a[i] = 1; } *)
GuardedInLoop(k) ==
  << << AllocaArray(1, ArrayLen), Alloca(2), Store(3, Const(0), 2), Br(4, 2) >>,
     << Load(5, 2), ICmp(6, "slt", Val(5), Const(30)), CondBr(7, 6, 3, 6) >>,
     << Load(8, 2), ICmp(9, "sgt", Val(8), Const(k)), CondBr(10, 9, 4, 5) >>,
     << Load(11, 2), Cast(12, 11), GEP(13, 1, Val(12)), Store(14, Const(1), 13), Br(15, 5) >>,
     << Load(16, 2), BinOp("+", 17, Val(16), Const(1)), Store(18, Val(17), 2), Br(19, 2) >>,
     << Ret(20) >> >>

(* int x = 0; for (;;) { if (x < k) x = x + 1; else x = x - 1; } *)
UpDown(k) ==
  << << Alloca(1), Store(2, Const(0), 1), Br(3, 2) >>,
     << Load(4, 1), ICmp(5, "slt", Val(4), Const(k)), CondBr(6, 5, 3, 4) >>,
     << Load(7, 1), BinOp("+", 8, Val(7), Const(1)), Store(9, Val(8), 1), Br(10, 2) >>,
     << Load(11, 1), BinOp("-", 12, Val(11), Const(1)), Store(13, Val(12), 1), Br(14, 2) >> >>

(* int x = 0; int y = k; while (x <= 10) y = 0 - y; *)
NegateLoop(k) ==
  << << Alloca(1), Alloca(2), Store(3, Const(0), 1), Store(4, Const(k), 2), Br(5, 2) >>,
     << Load(6, 1), ICmp(7, "sle", Val(6), Const(10)), CondBr(8, 7, 3, 4) >>,
     << Load(9, 2), BinOp("-", 10, Const(0), Val(9)), Store(11, Val(10), 2), Br(12, 2) >>,
     << Ret(13) >> >>

(* int y = rand(); int z = 0; if (y >= -5) if (y <= 5) z = k / y; *)
DivideGuarded(k) ==
  << << Alloca(1), Alloca(2), Call(3), Store(4, Val(3), 1), Store(5, Const(0), 2),
        Load(6, 1), ICmp(7, "sge", Val(6), Const(-5)), CondBr(8, 7, 2, 4) >>,
     << Load(9, 1), ICmp(10, "sle", Val(9), Const(5)), CondBr(11, 10, 3, 4) >>,
     << Load(12, 1), BinOp("/", 13, Const(k), Val(12)), Store(14, Val(13), 2), Br(15, 4) >>,
     << Ret(16) >> >>

(* int a[30]; int y = rand(); int z;                                       *)
(* if (y >= lo) if (y <= hi) { z = 10 / y; a[42] = z; }   with k = <<lo, hi>> *)
DivideRange(k) ==
  << << AllocaArray(1, ArrayLen), Alloca(2), Alloca(3), Call(4), Store(5, Val(4), 2),
        Load(6, 2), ICmp(7, "sge", Val(6), Const(k[1])), CondBr(8, 7, 2, 4) >>,
     << Load(9, 2), ICmp(10, "sle", Val(9), Const(k[2])), CondBr(11, 10, 3, 4) >>,
     << Load(12, 2), BinOp("/", 13, Const(10), Val(12)), Store(14, Val(13), 3),
        GEP(15, 1, Const(42)), Store(16, Val(13), 15), Br(17, 4) >>,
     << Ret(18) >> >>

(* tests/test_random_index.c, main(); k is the 10 of `random_var > 10`.    *)
(* Slots: 1 retval, 2 array, 3 i, 4 random_index, 5 random_var, 6 j,       *)
(* 7 sum, 8 k.  Blocks in layout order: 1 entry, 2 for.cond, 3 for.body,   *)
(* 4 for.inc, 5 for.end, 6 if.then, 7 for.cond6, 8 for.body8, 9 for.inc13, *)
(* 10 for.end14, 11 if.then16, 12 if.end, 13 while.cond, 14 while.body,    *)
(* 15 while.end, 16 if.end20.                                              *)
TestRandomIndex(k) ==
  << << Alloca(1), AllocaArray(2, ArrayLen), Alloca(3), Alloca(4), Alloca(5), Alloca(6),
        Alloca(7), Alloca(8), Store(9, Const(0), 1), Store(10, Const(0), 3), Br(11, 2) >>,
     << Load(12, 3), ICmp(13, "slt", Val(12), Const(30)), CondBr(14, 13, 3, 5) >>,
     << Load(15, 3), Load(16, 3), Cast(17, 16), GEP(18, 2, Val(17)),
        Store(19, Val(15), 18), Br(20, 4) >>,
     << Load(21, 3), BinOp("+", 22, Val(21), Const(1)), Store(23, Val(22), 3), Br(24, 2) >>,
     << Call(25), Store(26, Val(25), 4), Load(27, 4), Cast(28, 27), GEP(29, 2, Val(28)),
        Load(30, 29), Store(31, Val(30), 5), Load(32, 5),
        ICmp(33, "sgt", Val(32), Const(k)), CondBr(34, 33, 6, 16) >>,
     << Load(35, 5), Cast(36, 35), GEP(37, 2, Val(36)), Load(38, 37), Store(39, Val(38), 6),
        Store(40, Const(0), 7), Load(41, 5), BinOp("+", 42, Val(41), Const(15)),
        Store(43, Val(42), 8), Br(44, 7) >>,
     << Load(45, 8), ICmp(46, "slt", Val(45), Const(40)), CondBr(47, 46, 8, 10) >>,
     << Load(48, 8), BinOp("+", 49, Val(48), Const(5)), Cast(50, 49), GEP(51, 2, Val(50)),
        Load(52, 51), Load(53, 7), BinOp("+", 54, Val(53), Val(52)),
        Store(55, Val(54), 7), Br(56, 9) >>,
     << Load(57, 8), BinOp("+", 58, Val(57), Const(1)), Store(59, Val(58), 8), Br(60, 7) >>,
     << Load(61, 7), ICmp(62, "slt", Val(61), Const(0)), CondBr(63, 62, 11, 12) >>,
     << Load(64, 7), BinOp("*", 65, Val(64), Const(-1)), Store(66, Val(65), 7), Br(67, 12) >>,
     << Load(68, 7), BinOp("+", 69, Val(68), Const(1)), Store(70, Val(69), 7),
        Load(71, 7), BinOp("*", 72, Val(71), Const(50)), Store(73, Val(72), 7), Br(74, 13) >>,
     << Load(75, 5), Load(76, 7), ICmp(77, "sgt", Val(75), Val(76)), CondBr(78, 77, 14, 15) >>,
     << Load(79, 5), Cast(80, 79), GEP(81, 2, Val(80)), Load(82, 81), Load(83, 8),
        BinOp("+", 84, Val(83), Val(82)), Store(85, Val(84), 8), Br(86, 13) >>,
     << Br(87, 16) >>,
     << GEP(88, 2, Const(0)), Load(89, 88), Ret(90) >> >>

(* The functions the model analyses, each with the constants it is run with. *)
ProgramInputs ==
  ({"ConstIndex"} \X {-1, 0, 29, 30, 42}) \cup
  ({"CountedLoop"} \X {10, 30, 40}) \cup
  ({"OpaqueLoop"} \X {0}) \cup
  ({"GuardedInLoop"} \X {10, 50}) \cup
  ({"UpDown"} \X {10}) \cup
  ({"NegateLoop"} \X {5}) \cup
  ({"DivideGuarded"} \X {10}) \cup
  ({"DivideRange"} \X {<<-5, -5>>, <<-5, 0>>, <<-5, 5>>, <<0, 0>>, <<0, 5>>, <<5, 5>>}) \cup
  ({"TestRandomIndex"} \X {5, 8, 9, 10})

Program(name, k) ==
  CASE name = "ConstIndex" -> ConstIndex(k)
    [] name = "CountedLoop" -> CountedLoop(k)
    [] name = "OpaqueLoop" -> OpaqueLoop
    [] name = "GuardedInLoop" -> GuardedInLoop(k)
    [] name = "UpDown" -> UpDown(k)
    [] name = "NegateLoop" -> NegateLoop(k)
    [] name = "DivideGuarded" -> DivideGuarded(k)
    [] name = "DivideRange" -> DivideRange(k)
    [] name = "TestRandomIndex" -> TestRandomIndex(k)

(***************************************************************************)
(* State of BoundsCheckPass::runOnFunction.                                *)
(***************************************************************************)
VARIABLES
  prog,                       \* the analysed function: <<name, constant>>
  earlier,                    \* the functions runOnFunction was called on before, with their results
  ub,                         \* outcome of undefined signed overflow in this build
  pc,                         \* position in runOnFunction
  changed,                    \* the `changed` flag of the outer loop
  bfs,                        \* the BFS queue of the current pass
  visited,                    \* the visited set of the current pass
  passes,                     \* passes of the outer loop started, counted up to MaxPasses
  inst_to_ranges,
  basic_block_before_ranges,
  bb_to_succ_ranges,
  reach,                      \* edges found reachable by the latest branch evaluation
  mark,                       \* the three maps as they were when pass MarkPass ended
  array_sizes,
  warnings,                   \* the array accesses reported, in order
  cpc,                        \* a concrete run of the function: next instruction
  cmem,                       \* a concrete run: contents of the scalar stack slots
  cval,                       \* a concrete run: values of the instructions executed
  csteps,                     \* a concrete run: instructions executed
  applied,                    \* one branch or operation applied to two operand ranges
  firstOperand,               \* the range of its first operand
  secondOperand,              \* the range of its second operand
  result                      \* what it produced

analysis == << prog, earlier, ub, pc, changed, bfs, visited, passes, inst_to_ranges,
               basic_block_before_ranges, bb_to_succ_ranges, reach, mark, array_sizes,
               warnings >>

run == << cpc, cmem, cval, csteps >>

calc == << applied, firstOperand, secondOperand, result >>

vars == << analysis, run, calc >>

MaxPasses == 8

MaxSteps == 24

MarkPass == 3

Maps == << inst_to_ranges, basic_block_before_ranges, bb_to_succ_ranges >>

NotRunning == [b |-> 0, i |-> 0]

Idle == [kind |-> "none", pred |-> "", const |-> FALSE]

(* the functions handed to runOnFunction, by input *)
Functions == [p \in ProgramInputs |-> Program(p[1], p[2])]

F == Functions[prog]

Init ==
  /\ prog \in ProgramInputs
  /\ earlier = << >>
  /\ ub \in UBOutcomes
  /\ pc = "loop"
  /\ changed = TRUE
  /\ bfs = << >>
  /\ visited = {}
  /\ passes = 0
  /\ inst_to_ranges = EmptyRanges
  /\ basic_block_before_ranges = EmptyRanges
  /\ bb_to_succ_ranges = EmptyRanges
  /\ reach = {}
  /\ mark = << >>
  /\ array_sizes = EmptyRanges
  /\ warnings = << >>
  /\ cpc = [b |-> 1, i |-> 1]
  /\ cmem = EmptyRanges
  /\ cval = EmptyRanges
  /\ csteps = 0
  /\ applied = Idle
  /\ firstOperand = TopRange
  /\ secondOperand = TopRange
  /\ result = << >>

(* while (changed) { changed = false; bfs.push(&init); visited.insert(&init); *)
StartPass ==
  /\ pc = "loop"
  /\ changed
  /\ changed' = FALSE
  /\ bfs' = << 1 >>
  /\ visited' = {1}
  /\ passes' = IF passes < MaxPasses THEN passes + 1 ELSE passes
  /\ pc' = "bfs"
  /\ UNCHANGED << prog, earlier, ub, inst_to_ranges, basic_block_before_ranges, bb_to_succ_ranges,
                  reach, mark, array_sizes, warnings, run, calc >>

(* the written incoming edges of `current`, folded in predecessor order *)
RECURSIVE FoldEdges(_, _, _)
FoldEdges(succ, current, preds) ==
  IF Len(preds) = 1 THEN succ[preds[1]][current]
  ELSE intersectRanges(FoldEdges(succ, current, SubSeq(preds, 1, Len(preds) - 1)),
                       succ[preds[Len(preds)]][current])

WrittenPreds(succ, current) ==
  { p \in predecessors(F, current) : HasEdge(succ, p, current) }

RECURSIVE PushSuccs(_, _, _)
PushSuccs(q, vis, succs) ==
  IF succs = << >> THEN [bfs |-> q, visited |-> vis]
  ELSE IF Head(succs) \in vis THEN PushSuccs(q, vis, Tail(succs))
  ELSE PushSuccs(Append(q, Head(succs)), vis \cup {Head(succs)}, Tail(succs))

(* One iteration of `while (bfs.size())`: pop a block, push its successors, *)
(* merge its predecessors' edge states and run its instructions.            *)
VisitBlock ==
  /\ pc = "bfs"
  /\ bfs # << >>
  /\ \E current \in {Head(bfs)} :
     \E written \in {WrittenPreds(bb_to_succ_ranges, current)} :
     \E unioned \in {IF written = {} THEN EmptyRanges
                     ELSE FoldEdges(bb_to_succ_ranges, current, Ascending(written))} :
     \E entryChanged \in {~(current \in DOMAIN basic_block_before_ranges
                            /\ equal_ranges(basic_block_before_ranges[current], unioned))} :
     \E entry \in {[ranges |-> unioned, itr |-> inst_to_ranges,
                    succ |-> bb_to_succ_ranges, reach |-> reach,
                    changed |-> changed \/ entryChanged, aborted |-> FALSE]} :
     \E st \in {RunInsts(F, current, 1, entry, ub)} :
     LET pushed == PushSuccs(Tail(bfs), visited, bb_succs(F, current))
         valid == predecessors(F, current) = {} \/ written # {}
     IN  /\ bfs' = pushed.bfs
         /\ visited' = pushed.visited
         /\ IF ~valid
              THEN UNCHANGED << pc, changed, inst_to_ranges, basic_block_before_ranges,
                                bb_to_succ_ranges, reach >>
              ELSE /\ basic_block_before_ranges' =
                        IF entryChanged THEN Put(basic_block_before_ranges, current, unioned)
                        ELSE basic_block_before_ranges
                   /\ inst_to_ranges' = st.itr
                   /\ bb_to_succ_ranges' = st.succ
                   /\ reach' = st.reach
                   /\ changed' = st.changed
                   /\ pc' = IF st.aborted THEN "aborted" ELSE "bfs"
  /\ UNCHANGED << prog, earlier, ub, passes, mark, array_sizes, warnings, run, calc >>

(* the BFS queue is empty: back to the test of `while (changed)` *)
EndPass ==
  /\ pc = "bfs"
  /\ bfs = << >>
  /\ pc' = "loop"
  /\ mark' = IF passes = MarkPass THEN Maps ELSE mark
  /\ UNCHANGED << prog, earlier, ub, changed, bfs, visited, passes, inst_to_ranges,
                  basic_block_before_ranges, bb_to_succ_ranges, reach, array_sizes, warnings,
                  run, calc >>

RECURSIVE Flatten(_, _)
Flatten(Fn, b) ==
  IF b > Len(Fn) THEN << >>
  ELSE [i \in 1 .. Len(Fn[b]) |-> [inst |-> Fn[b][i], block |-> b, pos |-> i]]
         \o Flatten(Fn, b + 1)

getArrayInformation(Fn) ==
  [a \in { I.id : I \in { J \in InstsOf(Fn) : J.op = "allocaArray" } }
     |-> InstById(Fn, a).x.n]

(* the Ranges that precede the instruction at position pos of block b *)
getBeforeRanges(Fn, b, pos, itr, before) ==
  IF pos = 1 THEN (IF b \in DOMAIN before THEN before[b] ELSE EmptyRanges)
  ELSE (IF Fn[b][pos - 1].id \in DOMAIN itr THEN itr[Fn[b][pos - 1].id] ELSE EmptyRanges)

(* the index range checkArrayBounds tests for the array access e *)
IndexRange(Fn, e, itr, before) ==
  LET ranges == getBeforeRanges(Fn, e.block, e.pos, itr, before)
      index == e.inst.y
  IN  IF index.isConst THEN VariableRange(index.n, index.n)
      ELSE IF index.n \in DOMAIN ranges THEN ranges[index.n] ELSE TopRange

Reported(Fn, e, itr, before, sizes) ==
  /\ e.inst.op = "gep"
  /\ e.inst.id \in DOMAIN itr
  /\ outOfRange(IndexRange(Fn, e, itr, before), sizes[e.inst.x.n])

checkArrayBounds(Fn, itr, before, sizes) ==
  LET all == Flatten(Fn, 1)
  IN  SelectSeq([i \in 1 .. Len(all) |->
                   IF Reported(Fn, all[i], itr, before, sizes) THEN all[i].inst.id ELSE 0],
                LAMBDA id : id # 0)

(* the loop has converged: getArrayInformation(F); checkArrayBounds(F); *)
CheckBounds ==
  /\ pc = "loop"
  /\ ~changed
  /\ array_sizes' = getArrayInformation(F)
  /\ warnings' = checkArrayBounds(F, inst_to_ranges, basic_block_before_ranges,
                                  getArrayInformation(F))
  /\ pc' = "done"
  /\ UNCHANGED << prog, earlier, ub, changed, bfs, visited, passes, inst_to_ranges,
                  basic_block_before_ranges, bb_to_succ_ranges, reach, mark, run, calc >>

Next == StartPass \/ VisitBlock \/ EndPass \/ CheckBounds

Spec == Init /\ [][Next]_vars

(***************************************************************************)
(* A concrete run of the analysed function with the semantics of the IR:   *)
(* rand() and the array elements are any value of InputVals, and a run     *)
(* stops at ret and at undefined behaviour (signed overflow, division by   *)
(* zero, an access outside the array, a read of an uninitialised slot).    *)
(***************************************************************************)
InputVals == {INT_MIN, -5, -1, 0, 1, 5, ArrayLen - 1, ArrayLen, INT_MAX}

InInt(v) == INT_MIN <= v /\ v <= INT_MAX

OperandValue(operand) == IF operand.isConst THEN operand.n ELSE cval[operand.n]

IsArrayElement(ptr) == InstById(F, ptr).op = "gep"

InBounds(gep) ==
  LET g == InstById(F, gep)
  IN  0 <= cval[gep] /\ cval[gep] < InstById(F, g.x.n).x.n

Arith(op, a, b) ==
  CASE op = "+" -> a + b
    [] op = "-" -> a - b
    [] op = "*" -> a * b
    [] op = "/" -> IF b = 0 THEN INT_MAX + 1 ELSE TruncDiv(a, b)

Holds(pred, a, b) ==
  CASE pred = "eq" -> a = b
    [] pred = "ne" -> a # b
    [] pred = "sgt" -> a > b
    [] pred = "slt" -> a < b
    [] pred = "sge" -> a >= b
    [] pred = "sle" -> a <= b

Goto(b) == cpc' = [b |-> b, i |-> 1] /\ UNCHANGED << cmem, cval >>

Stop == cpc' = NotRunning /\ UNCHANGED << cmem, cval >>

Define(I, v) ==
  /\ cval' = Put(cval, I.id, v)
  /\ cpc' = [cpc EXCEPT !.i = cpc.i + 1]
  /\ UNCHANGED cmem

ExecStep ==
  /\ pc = "done"
  /\ cpc # NotRunning
  /\ csteps < MaxSteps
  /\ csteps' = csteps + 1
  /\ LET I == F[cpc.b][cpc.i]
     IN  CASE I.op \in {"alloca", "allocaArray"} ->
                cpc' = [cpc EXCEPT !.i = cpc.i + 1] /\ UNCHANGED << cmem, cval >>
           [] I.op = "load" ->
                IF IsArrayElement(I.x.n)
                  THEN IF InBounds(I.x.n) THEN \E v \in InputVals : Define(I, v) ELSE Stop
                ELSE IF I.x.n \in DOMAIN cmem THEN Define(I, cmem[I.x.n]) ELSE Stop
           [] I.op = "store" ->
                IF IsArrayElement(I.y.n)
                  THEN IF InBounds(I.y.n)
                         THEN cpc' = [cpc EXCEPT !.i = cpc.i + 1] /\ UNCHANGED << cmem, cval >>
                       ELSE Stop
                ELSE /\ cmem' = Put(cmem, I.y.n, OperandValue(I.x))
                     /\ cpc' = [cpc EXCEPT !.i = cpc.i + 1]
                     /\ UNCHANGED cval
           [] I.op \in {"+", "-", "*", "/"} ->
                LET v == Arith(I.op, OperandValue(I.x), OperandValue(I.y))
                IN  IF InInt(v) THEN Define(I, v) ELSE Stop
           [] I.op = "icmp" ->
                Define(I, IF Holds(I.pred, OperandValue(I.x), OperandValue(I.y)) THEN 1 ELSE 0)
           [] I.op = "br" -> Goto(I.t)
           [] I.op = "condbr" -> Goto(IF cval[I.x.n] = 1 THEN I.t ELSE I.f)
           [] I.op = "gep" -> Define(I, OperandValue(I.y))
           [] I.op = "call" -> \E v \in InputVals : Define(I, v)
           [] I.op = "cast" -> Define(I, cval[I.x.n])
           [] I.op = "ret" -> Stop
  /\ UNCHANGED << analysis, calc >>

NextExec == Next \/ ExecStep

SpecExec == Init /\ [][NextExec]_vars

(***************************************************************************)
(* One conditional branch, or one binary operation, applied to two operand *)
(* ranges: firstOperand is the range of stack slot 1 and of its load,      *)
(* secondOperand that of stack slot 2 and of its load.  The second operand *)
(* of a comparison is that load or, for a one-point range, the constant.   *)
(***************************************************************************)
RangeValues == {INT_MIN, -5, 0, 5, 10, 20, 30, INT_MAX}

OperandRanges ==
  { VariableRange(lo, hi) : lo \in RangeValues, hi \in RangeValues } \ { r \in
    { VariableRange(lo, hi) : lo \in RangeValues, hi \in RangeValues } : ~validate(r) }

(* x and y in slots 1 and 2; block 1 ends in `if (x pred y)`, true successor *)
(* block 2, false successor block 3                                         *)
CompareFn(pred, y) ==
  << << Alloca(1), Alloca(2), Load(3, 1), Load(4, 2), ICmp(5, pred, Val(3), y),
        CondBr(6, 5, 2, 3) >>,
     << Ret(7) >>,
     << Ret(8) >> >>

(* the Ranges in flight after the two loads, nothing recorded yet *)
OperandState ==
  [ranges |-> [v \in 1 .. 4 |-> IF v \in {1, 3} THEN firstOperand ELSE secondOperand],
   itr |-> EmptyRanges, succ |-> EmptyRanges, reach |-> {}, changed |-> FALSE,
   aborted |-> FALSE]

InitRanges ==
  /\ prog = << "none", 0 >>
  /\ earlier = << >>
  /\ ub \in UBOutcomes
  /\ pc = "idle"
  /\ changed = FALSE
  /\ bfs = << >>
  /\ visited = {}
  /\ passes = 0
  /\ inst_to_ranges = EmptyRanges
  /\ basic_block_before_ranges = EmptyRanges
  /\ bb_to_succ_ranges = EmptyRanges
  /\ reach = {}
  /\ mark = << >>
  /\ array_sizes = EmptyRanges
  /\ warnings = << >>
  /\ cpc = NotRunning
  /\ cmem = EmptyRanges
  /\ cval = EmptyRanges
  /\ csteps = 0
  /\ applied = Idle
  /\ firstOperand \in OperandRanges
  /\ secondOperand \in OperandRanges
  /\ result = << >>

(* handleBranchInstruction on `if (x pred y)`: the edges written and the   *)
(* edges found reachable                                                   *)
Compare ==
  /\ applied = Idle
  /\ \E pred \in Predicates, const \in BOOLEAN :
       /\ const => secondOperand.min_value = secondOperand.max_value
       /\ \E Fn \in {CompareFn(pred, IF const THEN Const(secondOperand.min_value)
                                      ELSE Val(4))} :
          \E before \in {OperandState} :
          \E st \in {handleBranchInstruction(Fn, 1, Terminator(Fn, 1), before, ub)} :
            /\ applied' = [kind |-> "icmp", pred |-> pred, const |-> const]
            /\ result' = [succ |-> st.succ, reach |-> st.reach, aborted |-> st.aborted]
  /\ UNCHANGED << analysis, run, firstOperand, secondOperand >>

(* handleBinaryOperations on `x o y`: the range of the result, or the exit *)
Operate ==
  /\ applied = Idle
  /\ \E o \in {"+", "-", "*", "/"} :
       \E before \in {OperandState} :
       \E st \in {handleBinaryOperations(BinOp(o, 5, Val(3), Val(4)), before, o)} :
         /\ applied' = [kind |-> o, pred |-> "", const |-> FALSE]
         /\ result' = [range |-> IF st.aborted THEN TopRange ELSE st.ranges[5],
                       aborted |-> st.aborted]
  /\ UNCHANGED << analysis, run, firstOperand, secondOperand >>

NextRanges == Compare \/ Operate

SpecRanges == InitRanges /\ [][NextRanges]_vars

(***************************************************************************)
(* handleInst applied to single instructions: the bookkeeping of an        *)
(* instruction that may have a recorded map already, and a load whose      *)
(* pointer may be missing from the Ranges in flight.                       *)
(***************************************************************************)
InstValues == {-5, 0, 5, 10}

InstRanges ==
  { r \in { VariableRange(lo, hi) : lo \in InstValues, hi \in InstValues } : validate(r) }

(* the maps inst_to_ranges can hold for the instruction *)
RecordedMaps == UNION { [K -> InstRanges] : K \in SUBSET {1, 2} }

(* x in slot 1, a call result 2, then a comparison and a load of x *)
InstallFn ==
  << << Alloca(1), Call(2), ICmp(3, "slt", Val(2), Const(0)), Load(4, 1), Ret(5) >> >>

(* p is an argument of the function (value 1), no instruction defines it *)
LoadFn == << << Load(2, 1), Ret(3) >> >>

InitInst ==
  /\ prog = << "none", 0 >>
  /\ earlier = << >>
  /\ ub \in UBOutcomes
  /\ pc = "idle"
  /\ changed = FALSE
  /\ bfs = << >>
  /\ visited = {}
  /\ passes = 0
  /\ inst_to_ranges = EmptyRanges
  /\ basic_block_before_ranges = EmptyRanges
  /\ bb_to_succ_ranges = EmptyRanges
  /\ reach = {}
  /\ mark = << >>
  /\ array_sizes = EmptyRanges
  /\ warnings = << >>
  /\ cpc = NotRunning
  /\ cmem = EmptyRanges
  /\ cval = EmptyRanges
  /\ csteps = 0
  /\ applied = Idle
  /\ firstOperand \in InstRanges
  /\ secondOperand \in InstRanges
  /\ result = << >>

(* the Ranges in flight and the maps recorded when handleInst is entered *)
InFlight(ranges, itr) ==
  [ranges |-> ranges, itr |-> itr, succ |-> EmptyRanges, reach |-> {}, changed |-> FALSE,
   aborted |-> FALSE]

(* handleInst on the comparison, with or without a map recorded for it,    *)
(* and then on the load that follows it                                    *)
Install ==
  /\ applied = Idle
  /\ \E recorded \in BOOLEAN, original \in RecordedMaps :
       /\ ~recorded => original = EmptyRanges
       /\ \E before \in {InFlight([v \in 1 .. 2 |-> IF v = 1 THEN firstOperand
                                                    ELSE secondOperand],
                                   IF recorded THEN [i \in {3} |-> original]
                                   ELSE EmptyRanges)} :
          \E st \in {handleInst(InstallFn, 1, InstallFn[1][3], before, ub)} :
          \E following \in {handleInst(InstallFn, 1, InstallFn[1][4], st, ub)} :
            /\ applied' = [kind |-> "install", pred |-> "", const |-> FALSE]
            /\ result' = [recorded |-> recorded, original |-> original,
                          installed |-> st.itr[3], reported |-> st.changed,
                          threaded |-> st.ranges, following |-> following.itr[4]]
  /\ UNCHANGED << analysis, run, firstOperand, secondOperand >>

(* handleInst on `load p`, p tracked with the first operand range or not   *)
LoadFrom ==
  /\ applied = Idle
  /\ \E tracked \in BOOLEAN :
     \E before \in {InFlight(IF tracked THEN [v \in {1} |-> firstOperand] ELSE EmptyRanges,
                             EmptyRanges)} :
     \E st \in {handleInst(LoadFn, 1, LoadFn[1][1], before, ub)} :
       /\ applied' = [kind |-> "load", pred |-> "", const |-> FALSE]
       /\ result' = [tracked |-> tracked, aborted |-> st.aborted, ranges |-> st.ranges]
  /\ UNCHANGED << analysis, run, firstOperand, secondOperand >>

NextInst == Install \/ LoadFrom

SpecInst == InitInst /\ [][NextInst]_vars

(***************************************************************************)
(* The pass manager calls runOnFunction on one function of the module      *)
(* after the other, on the same BoundsCheckPass object.                    *)
(***************************************************************************)
MaxFunctions == 2

ModuleFunctions ==
  { << "ConstIndex", 42 >>, << "CountedLoop", 40 >>, << "DivideRange", << -5, 5 >> >> }

(* what runOnFunction leaves behind for the analysed function *)
Outcome ==
  [prog |-> prog, maps |-> Maps, sizes |-> array_sizes, warnings |-> warnings]

clear_kept(member) == member

(* member.clear() *)
clear(member) == EmptyRanges

InitModule == Init /\ prog \in ModuleFunctions

(* runOnFunction has returned and is entered for the next function: the    *)
(* members are reset, `changed` and `count` are fresh locals.              *)
NextFunction ==
  /\ pc = "done"
  /\ Len(earlier) < MaxFunctions
  /\ earlier' = Append(earlier, Outcome)
  /\ prog' \in ModuleFunctions
  /\ inst_to_ranges' = clear(inst_to_ranges)
  /\ basic_block_before_ranges' = clear(basic_block_before_ranges)
  /\ bb_to_succ_ranges' = clear(bb_to_succ_ranges)
  /\ array_sizes' = clear(array_sizes)
  /\ changed' = TRUE
  /\ passes' = 0
  /\ pc' = "loop"
  /\ bfs' = << >>
  /\ visited' = {}
  /\ reach' = {}
  /\ mark' = << >>
  /\ warnings' = << >>
  /\ UNCHANGED << ub, run, calc >>

NextModule == Next \/ NextFunction

SpecModule == InitModule /\ [][NextModule]_vars

(***************************************************************************)
(* The predecessor merge of runOnFunction applied to the states of two or  *)
(* three written edges into one block (block 4, predecessors 1, 2, 3).     *)
(***************************************************************************)
MergeKeys == {1, 2}

MergeRanges ==
  { VariableRange(0, 0), VariableRange(0, 10), VariableRange(5, 20), VariableRange(-5, 5) }

EdgeStates == UNION { [K -> MergeRanges] : K \in SUBSET MergeKeys }

(* the orders in which n predecessors can be folded *)
Orders(n) == { o \in [1 .. n -> 1 .. n] : \A i, j \in 1 .. n : o[i] = o[j] => i = j }

InitMerge ==
  /\ prog = << "none", 0 >>
  /\ earlier = << >>
  /\ ub \in UBOutcomes
  /\ pc = "idle"
  /\ changed = FALSE
  /\ bfs = << >>
  /\ visited = {}
  /\ passes = 0
  /\ inst_to_ranges = EmptyRanges
  /\ basic_block_before_ranges = EmptyRanges
  /\ bb_to_succ_ranges = EmptyRanges
  /\ reach = {}
  /\ mark = << >>
  /\ array_sizes = EmptyRanges
  /\ warnings = << >>
  /\ cpc = NotRunning
  /\ cmem = EmptyRanges
  /\ cval = EmptyRanges
  /\ csteps = 0
  /\ applied = Idle
  /\ firstOperand = TopRange
  /\ secondOperand = TopRange
  /\ result = << >>

(* `unioned` of runOnFunction for the edge states given, folded in the     *)
(* order of the predecessors and in every other order                      *)
Merge ==
  /\ applied = Idle
  /\ \E n \in 2 .. 3 :
     \E edges \in [1 .. n -> EdgeStates] :
     \E succ \in {[p \in 1 .. n |-> [s \in {4} |-> edges[p]]]} :
       /\ applied' = [kind |-> "merge", pred |-> "", const |-> FALSE]
       /\ result' = [edges |-> edges,
                     unioned |-> FoldEdges(succ, 4, Ascending(1 .. n)),
                     orders |-> { FoldEdges(succ, 4, o) : o \in Orders(n) }]
  /\ UNCHANGED << analysis, run, firstOperand, secondOperand >>

NextMerge == Merge

SpecMerge == InitMerge /\ [][NextMerge]_vars

(***************************************************************************)
(* Properties.                                                             *)
(***************************************************************************)
Done == pc = "done"

Contains(r, v) == r.min_value <= v /\ v <= r.max_value

Accesses == LET all == Flatten(F, 1)
            IN  { all[i] : i \in { j \in 1 .. Len(all) : all[j].inst.op = "gep" } }

Access(id) == CHOOSE e \in Accesses : e.inst.id = id

WarnedSet == { warnings[i] : i \in 1 .. Len(warnings) }

IsSlot(v) == InstById(F, v).op = "alloca"

IsInteger(v) == InstById(F, v).op \in {"load", "+", "-", "*", "/", "call", "cast"}

(* C1: soundness.  After the fixed point, when a concrete run (without     *)
(* signed overflow) has just executed an instruction I that has a recorded *)
(* map, the content of every tracked stack slot and the value of every     *)
(* tracked integer instruction lies in the interval recorded for it at I.  *)
C1_Soundness ==
  (Done /\ cpc # NotRunning /\ cpc.i > 1) =>
    LET I == F[cpc.b][cpc.i - 1]
    IN  I.id \in DOMAIN inst_to_ranges =>
          \A v \in DOMAIN inst_to_ranges[I.id] :
            /\ (IsSlot(v) /\ v \in DOMAIN cmem) => Contains(inst_to_ranges[I.id][v], cmem[v])
            /\ (IsInteger(v) /\ v \in DOMAIN cval) => Contains(inst_to_ranges[I.id][v], cval[v])

(* C2: termination.  The outer loop makes progress towards a pass that     *)
(* changes nothing: a pass that ends with `changed` set never leaves the   *)
(* edge states, block entry states and per-instruction maps exactly as an  *)
(* earlier pass left them.  (runOnFunction is deterministic, so a pass     *)
(* that does so is followed by the same passes again, without end.)        *)
C2_PassesMakeProgress ==
  (pc = "loop" /\ changed /\ passes > MarkPass) => Maps # mark

(* the join of the edge states of the edges in `edges` that lead to b *)
JoinOfEdges(b, sources) == FoldEdges(bb_to_succ_ranges, b, Ascending(sources))

ReachablePreds(b) == { p \in predecessors(F, b) : <<p, b>> \in reach }

(* C3: unreachable edges contribute nothing.  At the fixed point the entry *)
(* state of every block other than the entry block is the join of the      *)
(* states of exactly the incoming edges that the latest evaluation of the  *)
(* predecessor's branch found reachable, and an array access in a block    *)
(* with no such edge is not reported.                                      *)
C3_UnreachableEdgesContributeNothing ==
  Done =>
    /\ \A b \in (DOMAIN basic_block_before_ranges) \ {1} :
         /\ ReachablePreds(b) # {}
         /\ basic_block_before_ranges[b] = JoinOfEdges(b, ReachablePreds(b))
    /\ \A e \in Accesses :
         (predecessors(F, e.block) # {} /\ ReachablePreds(e.block) = {})
           => e.inst.id \notin WarnedSet

(* the map before the access e, as the bounds checker is specified to read it *)
MapBefore(e) ==
  IF e.pos = 1 THEN basic_block_before_ranges[e.block]
  ELSE inst_to_ranges[F[e.block][e.pos - 1].id]

IndexInterval(e) ==
  IF e.inst.y.isConst THEN VariableRange(e.inst.y.n, e.inst.y.n)
  ELSE MapBefore(e)[e.inst.y.n]

ElementCount(e) == InstById(F, e.inst.x.n).x.n

(* C4: bounds-check rule.  After the fixed point an array access G over n  *)
(* elements is reported if and only if G has a recorded map and its index  *)
(* interval (the singleton of a constant index, else the interval of the   *)
(* index in the map before G) has hi < 0 or lo >= n; the table of array    *)
(* sizes holds n.                                                          *)
C4_BoundsCheckRule ==
  Done =>
    \A e \in Accesses :
      /\ array_sizes[e.inst.x.n] = ElementCount(e)
      /\ e.inst.id \in WarnedSet <=>
           /\ e.inst.id \in DOMAIN inst_to_ranges
           /\ \/ IndexInterval(e).max_value < 0
              \/ IndexInterval(e).min_value >= ElementCount(e)

(* an access is reported whose index interval starts exactly at n *)
C4_Witness ==
  /\ Done
  /\ \E e \in Accesses :
       /\ e.inst.id \in WarnedSet
       /\ ~e.inst.y.isConst
       /\ IndexInterval(e).min_value = ElementCount(e)

(* C5 as stated: for the loop over an opaque bound the index of a[i] is    *)
(* [0, INT_MAX] at the body and the access is reported.                    *)
C5_OpaqueLoopReported ==
  (Done /\ prog[1] = "OpaqueLoop") =>
    /\ IndexInterval(Access(11)) = VariableRange(0, INT_MAX)
    /\ 11 \in WarnedSet

(* C5 amended: the analysis of the loop over an opaque bound converges;    *)
(* the index of a[i] is [0, INT_MAX] at the body in the pass that widens   *)
(* (the second) and [0, INT_MAX - 1] at the fixed point; an interval that  *)
(* overlaps the array is not reported, so there is no diagnostic.          *)
C5_OpaqueLoopNotReported ==
  prog[1] = "OpaqueLoop" =>
    /\ (pc = "loop" /\ passes = 2) =>
         IndexInterval(Access(11)) = VariableRange(0, INT_MAX)
    /\ Done =>
         /\ IndexInterval(Access(11)) = VariableRange(0, INT_MAX - 1)
         /\ warnings = << >>

C5_Witness == Done /\ prog[1] = "OpaqueLoop" /\ passes > 2

(* C6: refinement surfaces a definite out-of-bounds access.  In the test   *)
(* program with the guard `random_var > c`: on the true edge the lower     *)
(* bound of random_var is c + 1; k = random_var + 15 enters its loop with  *)
(* lower bound c + 16 and the index k + 5 has lower bound c + 21; a[k + 5] *)
(* is reported exactly when c + 21 >= 30 (so for c = 10); a[random_var] in *)
(* `while (random_var > sum)` is reported, sum being at least 50; and      *)
(* a[random_index] and a[random_var] right under the guard are not.        *)
C6_RefinementSurfacesOutOfBounds ==
  (Done /\ prog[1] = "TestRandomIndex") =>
    /\ bb_to_succ_ranges[5][6][5].min_value = prog[2] + 1
    /\ bb_to_succ_ranges[6][7][8].min_value = prog[2] + 16
    /\ IndexInterval(Access(51)).min_value = prog[2] + 21
    /\ 51 \in WarnedSet <=> prog[2] + 21 >= ArrayLen
    /\ bb_to_succ_ranges[12][13][7].min_value >= 50
    /\ IndexInterval(Access(81)).min_value >= ArrayLen
    /\ 81 \in WarnedSet
    /\ 29 \notin WarnedSet
    /\ 37 \notin WarnedSet

C6_Witness == Done /\ prog = <<"TestRandomIndex", 10>> /\ warnings = <<51, 81>>

Compared == applied.kind = "icmp"

(* the edge of the branch to block s was found reachable *)
EdgeReachable(s) == << 1, s >> \in result.reach

(* the range written on the edge to block s for stack slot v *)
EdgeRange(s, v) == result.succ[1][s][v]

Within(inner, outer) ==
  outer.min_value <= inner.min_value /\ inner.max_value <= outer.max_value

(* C7: refinement never enlarges.  For every signed predicate and all      *)
(* operand ranges, on each edge of the branch that is found reachable the  *)
(* range written for the first operand lies within its range before the    *)
(* branch, and so does that of the second operand when it is not a         *)
(* constant.                                                               *)
C7_RefinementNeverEnlarges ==
  Compared =>
    \A s \in {2, 3} :
      EdgeReachable(s) =>
        /\ Within(EdgeRange(s, 1), firstOperand)
        /\ ~applied.const => Within(EdgeRange(s, 2), secondOperand)

(* C8: equality refinement law.  On the true edge of `x == y` and on the   *)
(* false edge of `x != y` both operands get the range from                 *)
(* max(x.lo, y.lo) to min(x.hi, y.hi), and that edge is unreachable when   *)
(* the maximum exceeds the minimum.                                        *)
C8_EqualityRefinementLaw ==
  (Compared /\ applied.pred \in {"eq", "ne"}) =>
    LET s == IF applied.pred = "eq" THEN 2 ELSE 3
        lo == max(firstOperand.min_value, secondOperand.min_value)
        hi == min(firstOperand.max_value, secondOperand.max_value)
    IN  IF lo > hi THEN ~EdgeReachable(s)
        ELSE /\ EdgeReachable(s)
             /\ EdgeRange(s, 1) = VariableRange(lo, hi)
             /\ ~applied.const => EdgeRange(s, 2) = VariableRange(lo, hi)

(* C9: less-than refinement law.  For `x < k` with k a constant, INT_MIN   *)
(* included: the true edge is unreachable when x.lo > k - 1, and when it   *)
(* is reachable the range written for x has hi <= k - 1 and the lo of x.   *)
C9_LessThanRefinementLaw ==
  (Compared /\ applied.pred = "slt" /\ applied.const) =>
    LET k == secondOperand.min_value
    IN  /\ firstOperand.min_value > k - 1 => ~EdgeReachable(2)
        /\ EdgeReachable(2) =>
             /\ EdgeRange(2, 1).max_value <= k - 1
             /\ EdgeRange(2, 1).min_value = firstOperand.min_value

(* the truncated quotient, saturated to int *)
Quotient(x, y) == Saturate(TruncDiv(x, y))

(* C10: division at unit divisors.  The range divRanges gives for          *)
(* [a,b] / [c,d] contains a/1 and b/1 when c < 1 < d, contains a/-1 and    *)
(* b/-1 when c < -1 < d, and contains the quotient of every x in [a,b] by  *)
(* every non-zero y in [c,d].                                              *)
C10_DivisionCoversUnitDivisors ==
  (applied.kind = "/" /\ ~result.aborted) =>
    LET a == firstOperand.min_value
        b == firstOperand.max_value
        c == secondOperand.min_value
        d == secondOperand.max_value
    IN  /\ (c < 1 /\ 1 < d) =>
             Contains(result.range, Quotient(a, 1)) /\ Contains(result.range, Quotient(b, 1))
        /\ (c < -1 /\ -1 < d) =>
             Contains(result.range, Quotient(a, -1)) /\ Contains(result.range, Quotient(b, -1))
        /\ \A x \in a .. b, y \in (c .. d) \ {0} : Contains(result.range, Quotient(x, y))

(* the analysis has ended in exit(1) or a failed assert *)
Aborted == pc = "aborted"

(* the divisor interval [lo,hi] of DivideRange *)
Divisor == VariableRange(prog[2][1], prog[2][2])

C11_State ==
  prog[1] = "DivideRange" =>
    /\ Aborted =>
         /\ Divisor = VariableRange(0, 0)
         /\ passes = 1
         /\ warnings = << >>
         /\ array_sizes = EmptyRanges
    /\ (pc = "loop" /\ passes >= 1) => Divisor # VariableRange(0, 0)
    /\ Done =>
         /\ warnings = << 15 >>
         /\ (Divisor.min_value = 0 \/ Divisor.max_value = 0) =>
              inst_to_ranges[13][13].max_value = 10

(* C11: division by zero handling.  The analysis of z = 10 / y aborts if   *)
(* and only if the range of y is exactly [0,0]; an aborted analysis takes  *)
(* no further step: no further pass, no bounds check, no warning; for a    *)
(* range of y with 0 as one end and another value as the other the         *)
(* analysis completes, the corner 10 / 0 counting as the dividend 10.      *)
C11_DivisionByZeroHandling == [](C11_State) /\ [][~Aborted]_vars

C11_Witness == Aborted /\ prog = << "DivideRange", << 0, 0 >> >>

(* the exact result v clamped into [INT_MIN, INT_MAX] *)
Clamp(v) == IF v > INT_MAX THEN INT_MAX ELSE IF v < INT_MIN THEN INT_MIN ELSE v

(* C12: saturating add/sub laws.  For all ranges [a,b] and [c,d] the sum   *)
(* is [sat(a+c), sat(b+d)] and the difference [sat(a-d), sat(b-c)], sat    *)
(* clamping the exact result into [INT_MIN, INT_MAX]; lo <= hi holds.      *)
C12_SaturatingAddSub ==
  LET a == firstOperand.min_value
      b == firstOperand.max_value
      c == secondOperand.min_value
      d == secondOperand.max_value
  IN  /\ applied.kind = "+" =>
           /\ ~result.aborted
           /\ result.range = VariableRange(Clamp(a + c), Clamp(b + d))
           /\ validate(result.range)
      /\ applied.kind = "-" =>
           /\ ~result.aborted
           /\ result.range = VariableRange(Clamp(a - d), Clamp(b - c))
           /\ validate(result.range)

(* a sum whose upper end saturates while its lower end does not *)
C12_Witness ==
  /\ applied.kind = "+"
  /\ firstOperand.max_value + secondOperand.max_value > INT_MAX
  /\ result.range.max_value = INT_MAX
  /\ result.range.min_value < INT_MAX

Merged == applied.kind = "merge"

(* the values every one of the merged edge states holds *)
SharedKeys == { v \in MergeKeys : \A p \in DOMAIN result.edges : v \in DOMAIN result.edges[p] }

(* C13: join at merges.  intersectRanges(A, B) holds exactly the values    *)
(* present in both A and B, each with [min(A.lo, B.lo), max(A.hi, B.hi)],  *)
(* so it contains both ranges and the key set never grows; the entry state *)
(* of a block is this join folded over all its written incoming edges.     *)
C13_JoinAtMerges ==
  Merged =>
    /\ DOMAIN result.unioned = SharedKeys
    /\ \A v \in SharedKeys :
         /\ result.unioned[v].min_value =
              SetMin({ result.edges[p][v].min_value : p \in DOMAIN result.edges })
         /\ result.unioned[v].max_value =
              SetMax({ result.edges[p][v].max_value : p \in DOMAIN result.edges })
         /\ \A p \in DOMAIN result.edges : Within(result.edges[p][v], result.unioned[v])
    /\ Len(result.edges) = 2 =>
         result.unioned = intersectRanges(result.edges[1], result.edges[2])

(* two edge states with different key sets and different ranges on the     *)
(* shared value                                                            *)
C13_Witness ==
  /\ Merged
  /\ Len(result.edges) = 2
  /\ DOMAIN result.edges[1] = {1, 2}
  /\ DOMAIN result.edges[2] = {1}
  /\ result.edges[1][1] = VariableRange(0, 10)
  /\ result.edges[2][1] = VariableRange(5, 20)
  /\ result.unioned = [v \in {1} |-> VariableRange(0, 20)]

(* C19: the merge does not depend on the order of the predecessors.  The   *)
(* join is commutative and associative, so folding the written incoming    *)
(* edge states in any order gives the same entry state.                    *)
C19_MergeOrderIndependent ==
  Merged =>
    /\ result.orders = { result.unioned }
    /\ \A p, q \in DOMAIN result.edges :
         intersectRanges(result.edges[p], result.edges[q]) =
           intersectRanges(result.edges[q], result.edges[p])
    /\ Len(result.edges) = 3 =>
         intersectRanges(intersectRanges(result.edges[1], result.edges[2]), result.edges[3]) =
           intersectRanges(result.edges[1], intersectRanges(result.edges[2], result.edges[3]))

(* three edge states, pairwise different on the value they share *)
C19_Witness ==
  /\ Merged
  /\ Len(result.edges) = 3
  /\ DOMAIN result.edges[1] = {1, 2}
  /\ DOMAIN result.edges[2] = {1}
  /\ DOMAIN result.edges[3] = {1, 2}
  /\ result.edges[1][1] = VariableRange(0, 0)
  /\ result.edges[2][1] = VariableRange(5, 20)
  /\ result.edges[3][1] = VariableRange(-5, 5)
  /\ result.unioned = [v \in {1} |-> VariableRange(-5, 20)]

(* C14: state is cleared between functions.  At the start of every         *)
(* runOnFunction call the per-instruction map, the block entry states, the *)
(* edge states and the array-size table are empty, so what the analysis    *)
(* leaves for a function is the same whatever functions came before it.    *)
C14_StateClearedBetweenFunctions ==
  /\ (pc = "loop" /\ passes = 0) =>
       /\ inst_to_ranges = EmptyRanges
       /\ basic_block_before_ranges = EmptyRanges
       /\ bb_to_succ_ranges = EmptyRanges
       /\ array_sizes = EmptyRanges
  /\ Done =>
       \A i \in DOMAIN earlier : earlier[i].prog = prog => earlier[i] = Outcome

(* a function analysed first, and analysed again after a different one *)
C14_Witness ==
  /\ Done
  /\ Len(earlier) = 2
  /\ earlier[1].prog = prog
  /\ earlier[2].prog # prog
  /\ earlier[2].warnings # << >>
  /\ warnings # << >>

(* C15: strict-less refinement of the right operand.  For `x < y` with     *)
(* both operands loaded from slots, the true edge gets for x the range     *)
(* [x.lo, min(x.hi, y.hi - 1)] and for y [max(y.lo, x'.lo + 1), y.hi]; and *)
(* for every ordered predicate the lower bound written for y on a          *)
(* reachable edge is never below the lower bound y had.                    *)
C15_RightOperandRefinement ==
  (Compared /\ ~applied.const /\ applied.pred \in {"slt", "sle", "sgt", "sge"}) =>
    /\ (applied.pred = "slt" /\ EdgeReachable(2)) =>
         LET hi == min(firstOperand.max_value, secondOperand.max_value - 1)
             lo == max(secondOperand.min_value, firstOperand.min_value + 1)
         IN  /\ EdgeRange(2, 1) = VariableRange(firstOperand.min_value, hi)
             /\ EdgeRange(2, 2) = VariableRange(lo, secondOperand.max_value)
    /\ \A s \in {2, 3} :
         EdgeReachable(s) => EdgeRange(s, 2).min_value >= secondOperand.min_value

(* The values of an operand range that matter for an ordering or equality  *)
(* against the other operand: its own ends and the ends of the other range *)
(* with their neighbours.  The least and the greatest operand value that   *)
(* can take an edge are always among them.                                 *)
BoundaryValues(own, other) ==
  { v \in { own.min_value, own.max_value,
            other.min_value - 1, other.min_value, other.min_value + 1,
            other.max_value - 1, other.max_value, other.max_value + 1 } :
      Contains(own, v) }

(* the condition of the edge to block s: the predicate on the true edge    *)
(* (block 2), its negation on the false edge (block 3)                     *)
TakesEdge(s, l, r) ==
  IF s = 2 THEN Holds(applied.pred, l, r) ELSE ~Holds(applied.pred, l, r)

(* pairs of operand values that take the edge to block s *)
SatisfyingPairs(s) ==
  { p \in BoundaryValues(firstOperand, secondOperand)
            \X BoundaryValues(secondOperand, firstOperand) : TakesEdge(s, p[1], p[2]) }

(* C16: infeasible edges are detected.  For every predicate and all        *)
(* operand ranges, when no pair of operand values satisfies the condition  *)
(* of an outgoing edge, that edge is flagged unreachable and its state is  *)
(* not written.                                                            *)
C16_InfeasibleEdgesDetected ==
  Compared =>
    \A s \in {2, 3} :
      SatisfyingPairs(s) = {} =>
        /\ ~EdgeReachable(s)
        /\ ~HasEdge(result.succ, 1, s)

(* C17: refinement keeps every satisfying pair.  For every predicate and   *)
(* all operand ranges, when operand values l and r satisfy the condition   *)
(* of an outgoing edge, the edge is flagged reachable, l lies in the range *)
(* written on it for the left operand's slot and r in the range written    *)
(* for the right operand's slot.                                           *)
C17_RefinementKeepsSatisfyingPairs ==
  Compared =>
    \A s \in {2, 3} :
      \A p \in SatisfyingPairs(s) :
        /\ EdgeReachable(s)
        /\ HasEdge(result.succ, 1, s)
        /\ Contains(EdgeRange(s, 1), p[1])
        /\ ~applied.const => Contains(EdgeRange(s, 2), p[2])

(* `x < y` with overlapping ranges: both edges can be taken and the true   *)
(* edge has tightened the range of x                                       *)
C17_Witness ==
  /\ Compared
  /\ applied.pred = "slt"
  /\ ~applied.const
  /\ firstOperand = VariableRange(0, 20)
  /\ secondOperand = VariableRange(5, 10)
  /\ SatisfyingPairs(2) # {}
  /\ SatisfyingPairs(3) # {}
  /\ EdgeRange(2, 1) = VariableRange(0, 9)

(* the interval the widening rule gives for a new interval n and an old o *)
Widened(n, o) ==
  VariableRange(IF n.min_value < o.min_value THEN INT_MIN ELSE n.min_value,
                IF n.max_value > o.max_value THEN INT_MAX ELSE n.max_value)

(* C18: widening at the per-instruction bookkeeping.  When handleInst      *)
(* processes a non-branch instruction that has a recorded map O and the    *)
(* new map N differs from O, every value present in both is installed with *)
(* hi = INT_MAX if N.hi > O.hi (else N.hi) and lo = INT_MIN if N.lo < O.lo *)
(* (else N.lo), values absent from O are installed unchanged, and the      *)
(* widened map is what the following instruction works on; on the first    *)
(* visit the map is installed without widening; whenever a map is          *)
(* installed, a change is reported.                                        *)
C18_WideningAtBookkeeping ==
  applied.kind = "install" =>
    LET N == [v \in 1 .. 2 |-> IF v = 1 THEN firstOperand ELSE secondOperand]
        O == result.original
        W == [v \in 1 .. 2 |-> IF v \in DOMAIN O THEN Widened(N[v], O[v]) ELSE N[v]]
    IN  /\ ~result.recorded =>
             /\ result.installed = N
             /\ result.threaded = N
             /\ result.reported
        /\ (result.recorded /\ N # O) =>
             /\ result.installed = W
             /\ result.threaded = W
             /\ result.following = [v \in {1, 2, 4} |-> IF v = 4 THEN W[1] ELSE W[v]]
             /\ result.reported

(* a recorded map that lacks value 2 and holds a lower upper bound for     *)
(* value 1                                                                 *)
C18_Witness ==
  /\ applied.kind = "install"
  /\ result.recorded
  /\ result.original = [v \in {1} |-> VariableRange(0, 5)]
  /\ firstOperand = VariableRange(0, 10)
  /\ secondOperand = VariableRange(-5, 5)
  /\ result.installed = << VariableRange(0, INT_MAX), VariableRange(-5, 5) >>
  /\ result.following[4] = VariableRange(0, INT_MAX)

(* C20: a load from an untracked pointer is conservative, not fatal.  When *)
(* the pointer operand of a load has no entry in the Ranges in flight the  *)
(* result of the load gets [INT_MIN, INT_MAX] and the analysis goes on;    *)
(* when the pointer is tracked the result gets the pointer's range.        *)
C20_LoadFromUntrackedPointer ==
  applied.kind = "load" =>
    /\ ~result.aborted
    /\ 2 \in DOMAIN result.ranges
    /\ result.ranges[2] = IF result.tracked THEN firstOperand ELSE TopRange

(* every interval of a Ranges map has min_value <= max_value *)
WellFormed(ranges) == \A v \in DOMAIN ranges : validate(ranges[v])

(* the edges of analysed conditional branches that were found infeasible   *)
(* and have no state                                                       *)
InfeasibleUnwritten ==
  { e \in Blocks(F) \X Blocks(F) :
      /\ e[1] \in DOMAIN basic_block_before_ranges
      /\ Terminator(F, e[1]).op = "condbr"
      /\ e[2] \in Targets(Terminator(F, e[1]))
      /\ e \notin reach
      /\ ~HasEdge(bb_to_succ_ranges, e[1], e[2]) }

(* C21: interval well-formedness.  In every reachable state of the         *)
(* analysis every interval stored in an edge state, a block entry state or *)
(* a per-instruction map has min_value <= max_value; an infeasible         *)
(* refinement result is never stored in a written edge state.              *)
C21_IntervalsWellFormed ==
  /\ \A I \in DOMAIN inst_to_ranges : WellFormed(inst_to_ranges[I])
  /\ \A b \in DOMAIN basic_block_before_ranges : WellFormed(basic_block_before_ranges[b])
  /\ \A p \in DOMAIN bb_to_succ_ranges :
       \A b \in DOMAIN bb_to_succ_ranges[p] : WellFormed(bb_to_succ_ranges[p][b])

(* a later pass has ended in which an edge found infeasible was left       *)
(* unwritten, the other edge of the branch was written, and a stored range *)
(* reaches INT_MAX                                                         *)
C21_Witness ==
  /\ pc = "loop"
  /\ passes > 1
  /\ \E e \in InfeasibleUnwritten :
       \E t \in Targets(Terminator(F, e[1])) : HasEdge(bb_to_succ_ranges, e[1], t)
  /\ \E I \in DOMAIN inst_to_ranges :
       \E v \in DOMAIN inst_to_ranges[I] : inst_to_ranges[I][v].max_value = INT_MAX

(* `unioned` as one more visit of block b would compute it from the stored *)
(* edge states                                                             *)
JoinNow(b) ==
  LET written == WrittenPreds(bb_to_succ_ranges, b)
  IN  IF written = {} THEN EmptyRanges
      ELSE FoldEdges(bb_to_succ_ranges, b, Ascending(written))

(* the instructions of block b run once more from its stored entry state   *)
(* over the stored maps                                                    *)
RevisitBlock(b) ==
  RunInsts(F, b, 1,
           [ranges |-> JoinNow(b), itr |-> inst_to_ranges, succ |-> bb_to_succ_ranges,
            reach |-> reach, changed |-> FALSE, aborted |-> FALSE],
           ub)

(* the blocks one more pass would analyse: reached by the BFS and either   *)
(* without predecessors or with a written incoming edge                    *)
AnalysedBlocks ==
  { b \in visited : predecessors(F, b) = {} \/ WrittenPreds(bb_to_succ_ranges, b) # {} }

(* C22: the exit state is a fixed point.  When the outer loop of           *)
(* runOnFunction has exited, the stored entry state of every block equals  *)
(* the join of the stored states of its written incoming edges (empty for  *)
(* the entry block), every stored per-instruction map equals the transfer  *)
(* of the map before it and every stored edge state of a feasible edge the *)
(* transfer of the terminator: one more pass would change no edge, block   *)
(* entry or per-instruction state.                                         *)
C22_ExitStateIsFixedPoint ==
  Done =>
    /\ DOMAIN basic_block_before_ranges = AnalysedBlocks
    /\ \A b \in AnalysedBlocks :
         /\ basic_block_before_ranges[b] = JoinNow(b)
         /\ \E st \in {RevisitBlock(b)} :
              /\ ~st.aborted
              /\ ~st.changed
              /\ st.itr = inst_to_ranges
              /\ st.succ = bb_to_succ_ranges

(* the analysis of a loop has exited after several passes, the back edge   *)
(* into the loop header is written                                         *)
C22_Witness ==
  /\ Done
  /\ passes > 2
  /\ \E b \in Blocks(F) :
       \E p \in WrittenPreds(bb_to_succ_ranges, b) :
         /\ p > b
         /\ Cardinality(WrittenPreds(bb_to_succ_ranges, b)) > 1

(* the edges that have a stored state *)
WrittenEdges ==
  { e \in Blocks(F) \X Blocks(F) : HasEdge(bb_to_succ_ranges, e[1], e[2]) }

(* one step of the analysis keeps what is recorded: no edge state, block   *)
(* entry state or per-instruction map is removed; an edge state changes    *)
(* only in the evaluation of its source block and only when that           *)
(* evaluation finds the edge reachable                                     *)
KeepsRecorded ==
  /\ DOMAIN inst_to_ranges \subseteq DOMAIN inst_to_ranges'
  /\ DOMAIN basic_block_before_ranges \subseteq DOMAIN basic_block_before_ranges'
  /\ \A e \in WrittenEdges :
       /\ HasEdge(bb_to_succ_ranges', e[1], e[2])
       /\ bb_to_succ_ranges'[e[1]][e[2]] # bb_to_succ_ranges[e[1]][e[2]] =>
            /\ pc = "bfs"
            /\ bfs # << >>
            /\ e[1] = Head(bfs)
            /\ e \in reach'

(* C23: recorded state only grows in domain.  During the analysis of one   *)
(* function an edge state once written is never removed, a block keeps its *)
(* stored entry state and an instruction its recorded map; an edge state   *)
(* is replaced only by an evaluation in which the edge is reachable and is *)
(* left untouched by one in which it is unreachable.                       *)
C23_RecordedStateOnlyGrows == [][KeepsRecorded]_vars

(* an edge written in an earlier pass that the latest evaluation of its    *)
(* branch found unreachable still has its state                            *)
C23_Witness ==
  /\ pc = "loop"
  /\ passes > 1
  /\ \E e \in WrittenEdges :
       /\ Terminator(F, e[1]).op = "condbr"
       /\ e \notin reach

====
